---- MODULE Spec2Model ----
(***************************************************************************)
(* A model of indenti.py: the indenting writers (IndentBase, IndentWriter, *)
(* IndentStringBuilder), the StringBuilder, and the markup builder with    *)
(* its rendering (XmlElement, XmlText, XmlFactory).                        *)
(*                                                                         *)
(* A Python str is a sequence of one-character strings, so that repeating, *)
(* joining and comparing text are computed and not assumed. The writer is  *)
(* a record holding the fields of IndentBase together with the fragments   *)
(* its _write_raw has been handed, in order.                               *)
(***************************************************************************)
EXTENDS Integers, Sequences, FiniteSets, TLC

VARIABLES iw, sw, scopes, exc, net, low, tracing, hist, el, res, rendered, sb, cat,
          factory

vars == <<iw, sw, scopes, exc, net, low, tracing, hist, el, res, rendered, sb, cat,
          factory>>

\* ------------------------------------------------------------------ bounds
\* Largest indent level the writer is driven to.
MaxDepth == 3
\* Largest level argument passed to indent() / unindent().
MaxLevel == 2
\* How far the running total of indents minus unindents is driven below zero.
MaxUnder == 2
\* Most fragments handed to _write_raw in a free run.
MaxOut == 4
\* Deepest nesting of with-blocks.
MaxScopes == 3
\* Longest recorded scenario (operations on a fresh writer).
MaxHist == 5

\* -------------------------------------------------------------------- text
Max(a, b) == IF a >= b THEN a ELSE b
Min(a, b) == IF a <= b THEN a ELSE b

\* Python's  s * n : n copies of s, the empty string when n <= 0.
RECURSIVE Rep(_, _)
Rep(s, n) == IF n <= 0 THEN <<>> ELSE s \o Rep(s, n - 1)

\* Python's ''.join(strings).
RECURSIVE Join(_)
Join(strings) == IF strings = <<>> THEN <<>>
                 ELSE Head(strings) \o Join(Tail(strings))

\* sep.join(strings)
RECURSIVE JoinWith(_, _)
JoinWith(sep, strings) ==
    IF strings = <<>> THEN <<>>
    ELSE IF Len(strings) = 1 THEN Head(strings)
    ELSE Head(strings) \o sep \o JoinWith(sep, Tail(strings))

NL == <<"\n">>
FourSpaces == <<" ", " ", " ", " ">>
Tab == <<"\t">>

OpenBrace == <<"{">>
Stmt == <<"x", ";">>
CloseBrace == <<"}">>

Texts == {OpenBrace, Stmt, CloseBrace}
IndentStrings == {FourSpaces, Tab}
Levels == 0..MaxLevel

\* ---------------------------------------------------------- IndentBase
\* IndentBase.__init__ (with the empty sink of a new IndentStringBuilder).
NewWriter == [il |-> 0, indent_str |-> FourSpaces, enabled |-> TRUE,
              isnewline |-> FALSE, stream |-> FALSE, out |-> <<>>]

\* IndentWriter.__init__: the same fields, and a stream for a sink; out is
\* the text the stream has been written.
NewStreamWriter == [NewWriter EXCEPT !.stream = TRUE]

\* IndentStringBuilder._write_raw / IndentWriter._write_raw: hand the
\* fragment to the sink.
write_raw(w, output) ==
    IF w.stream
    THEN [w EXCEPT !.out = w.out \o output]
    ELSE [w EXCEPT !.out = Append(w.out, output)]

write_keeps_flag(w, output) ==
    IF w.isnewline
    THEN write_raw(write_raw(w, Rep(w.indent_str, w.il)), output)
    ELSE write_raw(w, output)

\* IndentBase.write
write(w, output) ==
    IF w.isnewline
    THEN write_raw(write_raw([w EXCEPT !.isnewline = FALSE],
                             Rep(w.indent_str, w.il)), output)
    ELSE write_raw(w, output)

indent_by_one(w, level) == [w EXCEPT !.il = w.il + 1]

\* IndentBase.indent
indent(w, level) == [w EXCEPT !.il = w.il + level]

unindent_no_clamp(w, level) == [w EXCEPT !.il = w.il - level]

\* IndentBase.unindent
unindent(w, level) ==
    LET il == w.il - level
    IN  [w EXCEPT !.il = IF il < 0 THEN 0 ELSE il]

\* IndentBase.set_indent_string
set_indent_string(w, indent_str) == [w EXCEPT !.indent_str = indent_str]

\* IndentBase.set_enabled
set_enabled(w, enabled) == [w EXCEPT !.enabled = enabled]

\* IndentBase.newline
newline(w) == write_raw([w EXCEPT !.isnewline = TRUE], NL)

println_no_newline(w, output) == write(w, output)

\* IndentBase.println
println(w, output) == newline(write(w, output))

\* str.splitlines, as print_lines uses it: the lines of s without their line
\* breaks ("\n", "\r", "\r\n", "\f"), and no empty last line.
RECURSIVE splitlines_from(_, _, _)
splitlines_from(s, i, line) ==
    IF i > Len(s) THEN (IF line = <<>> THEN <<>> ELSE <<line>>)
    ELSE IF s[i] = "\r" /\ i < Len(s) /\ s[i + 1] = "\n"
         THEN <<line>> \o splitlines_from(s, i + 2, <<>>)
    ELSE IF s[i] \in {"\n", "\r", "\f"}
         THEN <<line>> \o splitlines_from(s, i + 1, <<>>)
    ELSE splitlines_from(s, i + 1, Append(line, s[i]))

splitlines(s) == splitlines_from(s, 1, <<>>)

RECURSIVE println_each(_, _)
println_each(w, lines) ==
    IF lines = <<>> THEN w
    ELSE println_each(println(w, Head(lines)), Tail(lines))

print_lines_whole(w, output) == println(w, output)

\* IndentBase.print_lines
print_lines(w, output) == println_each(w, splitlines(output))

\* IndentBase.__enter__
enter(w) == indent(w, 1)

exit_skips_on_error(w, raised) ==
    [w |-> IF raised THEN w ELSE unindent(w, 1), suppress |-> FALSE]

\* IndentBase.__exit__: unindents whatever the exception arguments are and
\* returns None, so an exception in flight is not suppressed.
exit(w, raised) == [w |-> unindent(w, 1), suppress |-> FALSE]

get_string_one_per_line(w) == JoinWith(NL, w.out)

\* StringBuilder.get_string
get_string(w) == Join(w.out)

\* str.split('\n'): the pieces between the line breaks, the empty ones
\* included, so one piece more than there are line breaks.
RECURSIVE split_from(_, _, _)
split_from(s, i, piece) ==
    IF i > Len(s) THEN <<piece>>
    ELSE IF s[i] = "\n" THEN <<piece>> \o split_from(s, i + 1, <<>>)
    ELSE split_from(s, i + 1, Append(piece, s[i]))

split(s) == split_from(s, 1, <<>>)

\* filter(None, strings): the strings that are not empty.
filter_none(strings) == SelectSeq(strings, LAMBDA x : x # <<>>)

\* StringBuilder.get_lines: the non-empty pieces of every fragment, fragment
\* by fragment.
RECURSIVE get_lines_of(_)
get_lines_of(strings) ==
    IF strings = <<>> THEN <<>>
    ELSE filter_none(split(Head(strings))) \o get_lines_of(Tail(strings))

get_lines(w) == get_lines_of(w.out)

StringBuilder_append_first(b, string) == [b EXCEPT !.out = <<string>> \o @]

\* StringBuilder.append
StringBuilder_append(b, string) == [b EXCEPT !.out = Append(@, string)]

\* StringBuilder.extend: map(self.append, strings) makes an iterator and
\* drops it; nothing draws from it, so append is never called.
StringBuilder_extend(b, strings) == b

\* The argument of StringBuilder(obj), by the type __init__ tests for.
NoObj == [kind |-> "none"]
StrObj(str) == [kind |-> "str", str |-> str]
ListObj(strings) == [kind |-> "list", strings |-> strings]

\* StringBuilder.__init__; the fragments (_strings) are the field out.
StringBuilder(obj) ==
    LET b == [out |-> <<>>]
    IN  CASE obj.kind = "str" -> StringBuilder_append(b, obj.str)
          [] obj.kind = "list" -> StringBuilder_extend(b, obj.strings)
          [] OTHER -> b

\* ------------------------------------------------- the writer's operations
\* An operation as recorded in a scenario.
Op(name, text, n) == [op |-> name, text |-> text, n |-> n]

\* A step may be taken: no exception is unwinding, and a recorded scenario
\* has room for one more operation.
CanStep == exc = "none" /\ (tracing => Len(hist) < MaxHist)

\* The output fits the free run's bound (a recorded scenario is bounded by
\* its length instead).
Fits(w) == tracing \/ Len(w.out) <= MaxOut

Log(o) == /\ hist' = IF tracing THEN Append(hist, o) ELSE hist
          /\ tracing' = tracing

\* iw.write(output)
Write(output) ==
    /\ CanStep
    /\ Fits(write(iw, output))
    /\ iw' = write(iw, output)
    /\ sw' = write(sw, output)
    /\ Log(Op("write", output, 0))
    /\ UNCHANGED <<scopes, exc, net, low, el, res, rendered, sb, cat, factory>>

\* iw.println(output)
Println(output) ==
    /\ CanStep
    /\ Fits(println(iw, output))
    /\ iw' = println(iw, output)
    /\ sw' = println(sw, output)
    /\ Log(Op("println", output, 0))
    /\ UNCHANGED <<scopes, exc, net, low, el, res, rendered, sb, cat, factory>>

\* iw.newline()
Newline ==
    /\ CanStep
    /\ Fits(newline(iw))
    /\ iw' = newline(iw)
    /\ sw' = newline(sw)
    /\ Log(Op("newline", <<>>, 0))
    /\ UNCHANGED <<scopes, exc, net, low, el, res, rendered, sb, cat, factory>>

\* iw.indent(level)
Indent(level) ==
    /\ CanStep
    /\ iw.il + level <= MaxDepth
    /\ iw' = indent(iw, level)
    /\ sw' = indent(sw, level)
    /\ net' = net + level
    /\ low' = low
    /\ Log(Op("indent", <<>>, level))
    /\ UNCHANGED <<scopes, exc, el, res, rendered, sb, cat, factory>>

\* iw.unindent(level)
Unindent(level) ==
    /\ CanStep
    /\ net - level >= -MaxUnder
    /\ iw' = unindent(iw, level)
    /\ sw' = unindent(sw, level)
    /\ net' = net - level
    /\ low' = Min(low, net - level)
    /\ Log(Op("unindent", <<>>, level))
    /\ UNCHANGED <<scopes, exc, el, res, rendered, sb, cat, factory>>

\* iw.print_lines(output)
PrintLines(output) ==
    /\ CanStep
    /\ Fits(print_lines(iw, output))
    /\ iw' = print_lines(iw, output)
    /\ sw' = print_lines(sw, output)
    /\ Log(Op("print_lines", output, 0))
    /\ UNCHANGED <<scopes, exc, net, low, el, res, rendered, sb, cat, factory>>

\* iw.set_indent_string(indent_str)
SetIndentString(indent_str) ==
    /\ CanStep
    /\ iw' = set_indent_string(iw, indent_str)
    /\ sw' = set_indent_string(sw, indent_str)
    /\ Log(Op("set_indent_string", indent_str, 0))
    /\ UNCHANGED <<scopes, exc, net, low, el, res, rendered, sb, cat, factory>>

\* iw.set_enabled(enabled)
SetEnabled(enabled) ==
    /\ CanStep
    /\ iw' = set_enabled(iw, enabled)
    /\ sw' = set_enabled(sw, enabled)
    /\ Log(Op("set_enabled", <<>>, IF enabled THEN 1 ELSE 0))
    /\ UNCHANGED <<scopes, exc, net, low, el, res, rendered, sb, cat, factory>>

\* with iw:  (the interpreter calls __enter__; the depth at entry is kept
\* on the stack of open with-blocks)
Enter ==
    /\ CanStep
    /\ Len(scopes) < MaxScopes
    /\ iw.il + 1 <= MaxDepth
    /\ iw' = enter(iw)
    /\ sw' = enter(sw)
    /\ scopes' = Append(scopes, iw.il)
    /\ net' = net + 1
    /\ low' = low
    /\ Log(Op("enter", <<>>, 0))
    /\ UNCHANGED <<exc, el, res, rendered, sb, cat, factory>>

\* Leaving the innermost with-block: the interpreter calls __exit__ on normal
\* completion and while an exception unwinds; a true return value would
\* suppress the exception.
Exit ==
    /\ scopes # <<>>
    /\ tracing => Len(hist) < MaxHist
    /\ LET r == exit(iw, exc = "raised")
       IN  /\ iw' = r.w
           /\ exc' = IF r.suppress THEN "none" ELSE exc
    /\ sw' = exit(sw, exc = "raised").w
    /\ scopes' = SubSeq(scopes, 1, Len(scopes) - 1)
    /\ net' = net - 1
    /\ low' = Min(low, net - 1)
    /\ Log(Op("exit", <<>>, 0))
    /\ UNCHANGED <<el, res, rendered, sb, cat, factory>>

\* An error is raised by the body of a with-block.
Raise ==
    /\ CanStep
    /\ scopes # <<>>
    /\ exc' = "raised"
    /\ Log(Op("raise", <<>>, 0))
    /\ UNCHANGED <<iw, sw, scopes, net, low, el, res, rendered, sb, cat, factory>>

\* The error has left every with-block and reaches the caller, which handles
\* it and goes on using the writer.
Catch ==
    /\ exc = "raised"
    /\ scopes = <<>>
    /\ tracing => Len(hist) < MaxHist
    /\ exc' = "none"
    /\ Log(Op("catch", <<>>, 0))
    /\ UNCHANGED <<iw, sw, scopes, net, low, el, res, rendered, sb, cat, factory>>

\* ------------------------------------------------------------- XmlElement
\* Python's None, which no string equals.
None == <<"None">>

ELEMENT_NODE == "Node"
ELEMENT_TEXT == "Text"

HTML_VOID_TAGS ==
    {<<"a", "r", "e", "a">>,
     <<"b", "a", "s", "e">>,
     <<"b", "r">>,
     <<"c", "o", "l">>,
     <<"h", "r">>,
     <<"i", "m", "g">>,
     <<"i", "n", "p", "u", "t">>,
     <<"l", "i", "n", "k">>,
     <<"m", "e", "t", "a">>,
     <<"p", "a", "r", "a", "m">>,
     <<"c", "o", "m", "m", "a", "n", "d">>,
     <<"k", "e", "y", "g", "e", "n">>,
     <<"s", "o", "u", "r", "c", "e">>}

HTML_NOINDENT_TAGS == {<<"t", "e", "x", "t", "a", "r", "e", "a">>}

\* XmlText.__init__
XmlText(text) == [nodetype |-> ELEMENT_TEXT, text |-> text]

\* XmlElement.__init__ (attrs = None)
XmlElement(name, html) ==
    [nodetype |-> ELEMENT_NODE, name |-> name, doctype |-> None,
     html |-> html, children |-> <<>>, attrs |-> <<>>]

\* The attributes are an OrderedDict: a sequence of items with distinct
\* keys, in insertion order.
Item(key, value) == [key |-> key, value |-> value]

\* key in d
has_key(d, key) == \E i \in 1..Len(d) : d[i].key = key

\* d[key]
get_item(d, key) == d[CHOOSE i \in 1..Len(d) : d[i].key = key].value

set_item_moves_to_end(d, key, value) ==
    Append(SelectSeq(d, LAMBDA it : it.key # key), Item(key, value))

\* d[key] = value: a present key keeps its place, a new one goes last.
set_item(d, key, value) ==
    IF has_key(d, key)
    THEN [i \in 1..Len(d) |->
            IF d[i].key = key THEN Item(key, value) ELSE d[i]]
    ELSE Append(d, Item(key, value))

\* d.update(other)
RECURSIVE update(_, _)
update(d, other) ==
    IF other = <<>> THEN d
    ELSE update(set_item(d, Head(other).key, Head(other).value), Tail(other))

\* The result of a call on an element: the element as the call left it and
\* the exception it raised ("" when it returned).
Result(e, err) == [el |-> e, err |-> err]

IsVoid(e) == e.html /\ e.name \in HTML_VOID_TAGS

append_unguarded(e, child) ==
    Result([e EXCEPT !.children = Append(@, child)], "")

\* XmlElement.append
append(e, child) ==
    IF e.html /\ e.name \in HTML_VOID_TAGS
    THEN Result(e, "ValueError")
    ELSE Result([e EXCEPT !.children = Append(@, child)], "")

\* The positional arguments of apply, by the shape apply dispatches on.
StrArg(str) == [kind |-> "str", str |-> str]
ListArg(items) == [kind |-> "list", items |-> items]
DictArg(pairs) == [kind |-> "dict", pairs |-> pairs]
NodeArg(node) == [kind |-> "node", node |-> node]

Class == <<"c", "l", "a", "s", "s">>

RECURSIVE apply_dict_overwrite(_, _)
apply_dict_overwrite(e, pairs) ==
    IF pairs = <<>> THEN Result(e, "")
    ELSE apply_dict_overwrite(
           [e EXCEPT !.attrs = set_item(@, Head(pairs).key, Head(pairs).value)],
           Tail(pairs))

\* XmlElement.apply, the dict branch: every item is set, but in HTML mode a
\* class is added to the class there is, after a space; adding to or with
\* None is a TypeError.
RECURSIVE apply_dict(_, _)
apply_dict(e, pairs) ==
    IF pairs = <<>> THEN Result(e, "")
    ELSE LET key == Head(pairs).key
             value == Head(pairs).value
         IN  IF key = Class /\ e.html /\ has_key(e.attrs, Class)
             THEN IF value = None \/ get_item(e.attrs, Class) = None
                  THEN Result(e, "TypeError")
                  ELSE apply_dict(
                         [e EXCEPT !.attrs =
                            set_item(@, Class,
                                     get_item(@, Class) \o <<" ">> \o value)],
                         Tail(pairs))
             ELSE apply_dict([e EXCEPT !.attrs = set_item(@, key, value)],
                             Tail(pairs))

RECURSIVE apply(_, _, _)
RECURSIVE apply_children(_, _)

RECURSIVE apply_children_skips_lists(_, _)
apply_children_skips_lists(r, args) ==
    IF args = <<>> \/ r.err # "" THEN r
    ELSE LET child == Head(args)
             r1 == CASE child.kind = "str" -> append(r.el, XmlText(child.str))
                      [] child.kind = "list" -> r
                      [] child.kind = "dict" -> apply_dict(r.el, child.pairs)
                      [] OTHER -> append(r.el, child.node)
         IN  apply_children_skips_lists(r1, Tail(args))

\* XmlElement.apply, the loop over the positional arguments; an exception
\* ends it and leaves the element as it is by then.
apply_children(r, args) ==
    IF args = <<>> \/ r.err # "" THEN r
    ELSE LET child == Head(args)
             r1 == CASE child.kind = "str" -> append(r.el, XmlText(child.str))
                      [] child.kind = "list" -> apply(r.el, child.items, <<>>)
                      [] child.kind = "dict" -> apply_dict(r.el, child.pairs)
                      [] OTHER -> append(r.el, child.node)
         IN  apply_children(r1, Tail(args))

apply_kwargs_last(e, args, kwargs) ==
    LET r == apply_children(Result(e, ""), args)
    IN  IF r.err # "" THEN r
        ELSE Result([r.el EXCEPT !.attrs = update(@, kwargs)], "")

\* XmlElement.apply
apply(e, args, kwargs) ==
    apply_children(Result([e EXCEPT !.attrs = update(@, kwargs)], ""), args)

\* e.apply(*args, **kwargs) as a caller sees it: the element as the call
\* left it, the exception, and the value returned when there is none, which
\* is self (objects are modelled by their value).
apply_call(e, args, kwargs) ==
    LET r == apply(e, args, kwargs)
    IN  [el |-> r.el, err |-> r.err,
         ret |-> IF r.err = "" THEN r.el ELSE None]

\* XmlFunctor.__call__: the new element, or the exception of its apply.
XmlFunctor_call(element_name, html, args, kwargs) ==
    apply(XmlElement(element_name, html), args, kwargs)

\* ---------------------------------------------------------------- escaping
\* str.replace(old, new) for a one-character old.
RECURSIVE replace(_, _, _)
replace(data, old, new) ==
    IF data = <<>> THEN <<>>
    ELSE (IF Head(data) = old THEN new ELSE <<Head(data)>>)
           \o replace(Tail(data), old, new)

Amp == <<"&", "a", "m", "p", ";">>
Gt == <<"&", "g", "t", ";">>
Lt == <<"&", "l", "t", ";">>
Quot == <<"&", "q", "u", "o", "t", ";">>
Ref10 == <<"&", "#", "1", "0", ";">>
Ref13 == <<"&", "#", "1", "3", ";">>
Ref9 == <<"&", "#", "9", ";">>

xml_escape_amp_last(data) ==
    replace(replace(replace(data, ">", Gt), "<", Lt), "&", Amp)

\* xml.sax.saxutils.escape, imported as xml_escape: the ampersand first, then
\* ">" and "<".
xml_escape(data) ==
    replace(replace(replace(data, "&", Amp), ">", Gt), "<", Lt)

Contains(data, c) == \E i \in 1..Len(data) : data[i] = c

attr_escape_always_double(data) == <<"\"">> \o xml_escape(data) \o <<"\"">>

\* xml.sax.saxutils.quoteattr, imported as attr_escape: escape, with newline,
\* carriage return and tab as character references; then double quotes
\* around the value, unless it holds a double quote and no single quote
\* (single quotes around it), and with &quot; for the double quotes when it
\* holds both.
attr_escape(data) ==
    LET d == replace(replace(replace(xml_escape(data), "\n", Ref10),
                             "\r", Ref13), "\t", Ref9)
    IN  IF Contains(d, "\"")
        THEN IF Contains(d, "'")
             THEN <<"\"">> \o replace(d, "\"", Quot) \o <<"\"">>
             ELSE <<"'">> \o d \o <<"'">>
        ELSE <<"\"">> \o d \o <<"\"">>

\* XmlElement._get_attrs_str, one declaration: key=quoted value, or the bare
\* key for a None value.
attr_decl(attr, value) ==
    IF value # None
    THEN xml_escape(attr) \o <<"=">> \o attr_escape(value)
    ELSE xml_escape(attr)

\* XmlElement._get_attrs_str
get_attrs_str(attrs) ==
    JoinWith(<<" ">>,
             [i \in 1..Len(attrs) |-> attr_decl(attrs[i].key, attrs[i].value)])

\* ---------------------------------------------------------------- rendering
\* XmlElement.doctype
doctype(e, d) == [e EXCEPT !.doctype = d]

\* XmlText.__str__
XmlText_str(node) == xml_escape(node.text)

\* "<name" or "<name attrs", the start of every tag __str__ writes.
tag_start(e) ==
    IF e.attrs = <<>>
    THEN <<"<">> \o xml_escape(e.name)
    ELSE <<"<">> \o xml_escape(e.name) \o <<" ">> \o get_attrs_str(e.attrs)

\* "</name>"
tag_end(e) == <<"<", "/">> \o xml_escape(e.name) \o <<">">>

DoctypeStart == <<"<", "!", "d", "o", "c", "t", "y", "p", "e", " ">>

\* XmlElement.__str__, the doctype line.
render_doctype(w, e) ==
    IF e.doctype # None
    THEN println(w, DoctypeStart \o e.doctype \o <<">">>)
    ELSE w

render_empty_always_short(w, e) == println(w, tag_start(e) \o <<"/", ">">>)

\* XmlElement.__str__, no children: an open and a close tag in HTML mode
\* unless the tag is void, a self-closing tag otherwise.
render_empty(w, e) ==
    IF e.html /\ e.name \notin HTML_VOID_TAGS
    THEN println(w, tag_start(e) \o <<">">> \o tag_end(e))
    ELSE println(w, tag_start(e) \o <<"/", ">">>)

RECURSIVE XmlElement_str(_)

\* str(child)
node_str(child) ==
    IF child.nodetype = ELEMENT_TEXT
    THEN XmlText_str(child)
    ELSE XmlElement_str(child)

\* XmlElement.__str__, children of a tag that is not indented: one line.
render_noindent(w, e) ==
    println(w, tag_start(e) \o <<">">>
               \o Join([i \in 1..Len(e.children) |-> node_str(e.children[i])])
               \o tag_end(e))

RECURSIVE print_children(_, _)
print_children(w, children) ==
    IF children = <<>> THEN w
    ELSE print_children(print_lines(w, node_str(Head(children))),
                        Tail(children))

render_block_closes_inside(w, e) ==
    LET opened == println(w, tag_start(e) \o <<">">>)
        inside == print_children(enter(opened), e.children)
    IN  exit(println(inside, tag_end(e)), FALSE).w

\* XmlElement.__str__, children otherwise: the open tag on a line, the lines
\* of every child inside a with-block, the close tag on a line.
render_block(w, e) ==
    LET opened == println(w, tag_start(e) \o <<">">>)
        inside == print_children(enter(opened), e.children)
    IN  println(exit(inside, FALSE).w, tag_end(e))

\* XmlElement.__str__
XmlElement_str(e) ==
    LET sb0 == render_doctype(NewWriter, e)
    IN  get_string(
          IF e.children = <<>> THEN render_empty(sb0, e)
          ELSE IF e.html /\ e.name \in HTML_NOINDENT_TAGS
               THEN render_noindent(sb0, e)
               ELSE render_block(sb0, e))

str_call_consumes_doctype(e) ==
    [el |-> [e EXCEPT !.doctype = None], str |-> XmlElement_str(e)]

\* str(e): the element as the call leaves it (__str__ assigns to no field)
\* and the string it returns.
str_call(e) == [el |-> e, str |-> XmlElement_str(e)]

\* ------------------------------------------------ the builder's operations
\* Most children of the element under construction.
MaxChildren == 2
\* Longest attribute value the element is driven to.
MaxValueLen == 3

Img == <<"i", "m", "g">>
Div == <<"d", "i", "v">>
Textarea == <<"t", "e", "x", "t", "a", "r", "e", "a">>
Li == <<"l", "i">>
Id == <<"i", "d">>

Tags == {Img, Div, Textarea}
StrValues == {<<"a">>, <<"b">>}

\* Children handed over ready-made.
ChildNodes == {XmlText(<<"a">>), XmlElement(Li, FALSE)}

TextA == StrArg(<<"a">>)
NodeLi == NodeArg(XmlElement(Li, FALSE))
ClassA == DictArg(<<Item(Class, <<"a">>)>>)
ClassB == DictArg(<<Item(Class, <<"b">>)>>)
IdX == DictArg(<<Item(Id, <<"x">>)>>)
IdXClassNone == DictArg(<<Item(Id, <<"x">>), Item(Class, None)>>)

\* The positional argument lists tried: no argument, one of each shape, lists
\* nested once and twice, and a mapping before and after a child.
ArgLists ==
    {<<>>,
     <<TextA>>,
     <<NodeLi>>,
     <<ClassA>>,
     <<ClassB>>,
     <<IdXClassNone>>,
     <<ListArg(<<TextA, NodeLi>>)>>,
     <<ListArg(<<ListArg(<<IdX, TextA>>)>>)>>,
     <<ClassA, TextA>>,
     <<TextA, ClassB>>,
     <<NodeLi, TextA>>,
     <<IdX, ClassA>>}

\* The positional argument lists the factory's constructor is tried with.
ConstructArgLists ==
    {<<>>,
     <<TextA>>,
     <<ClassA, TextA>>,
     <<ListArg(<<TextA, NodeLi>>)>>}

KwArgs == {<<>>, <<Item(Id, <<"y">>)>>, <<Item(Class, <<"b">>)>>}

\* The arguments hold a child to append, at any nesting.
RECURSIVE HasChild(_)
HasChild(args) ==
    \E i \in 1..Len(args) :
       \/ args[i].kind \in {"str", "node"}
       \/ args[i].kind = "list" /\ HasChild(args[i].items)

\* The element stays within the bounds of the model.
Small(e) ==
    /\ Len(e.children) <= MaxChildren
    /\ \A i \in 1..Len(e.attrs) : Len(e.attrs[i].value) <= MaxValueLen

\* el.apply(*args, **kwargs)
Apply(args, kwargs) ==
    LET r == apply(el, args, kwargs)
    IN  /\ Small(r.el)
        /\ el' = r.el
        /\ res' = r.err
        /\ rendered' = None
        /\ UNCHANGED <<iw, sw, scopes, exc, net, low, tracing, hist, sb, cat, factory>>

\* el.append(child)
AppendChild(child) ==
    LET r == append(el, child)
    IN  /\ Small(r.el)
        /\ el' = r.el
        /\ res' = r.err
        /\ rendered' = None
        /\ UNCHANGED <<iw, sw, scopes, exc, net, low, tracing, hist, sb, cat, factory>>

\* el = XmlFunctor(name, html)(*args, **kwargs): when the call raises, no
\* element is returned and el stays bound to the one it had.
Construct(name, html, args, kwargs) ==
    LET r == XmlFunctor_call(name, html, args, kwargs)
    IN  /\ Small(r.el)
        /\ el' = IF r.err = "" THEN r.el ELSE el
        /\ res' = r.err
        /\ rendered' = None
        /\ UNCHANGED <<iw, sw, scopes, exc, net, low, tracing, hist, sb, cat, factory>>

\* el.doctype(d)
Doctype(d) ==
    /\ el' = doctype(el, d)
    /\ res' = ""
    /\ rendered' = None
    /\ UNCHANGED <<iw, sw, scopes, exc, net, low, tracing, hist, sb, cat, factory>>

\* rendered = str(el); rendered holds what the last call returned as long as
\* that call was str(el).
Render ==
    LET r == str_call(el)
    IN  /\ el' = r.el
        /\ rendered' = r.str
        /\ res' = ""
        /\ UNCHANGED <<iw, sw, scopes, exc, net, low, tracing, hist, sb, cat, factory>>

Ul == <<"u", "l">>
RAndD == <<"r", "&", "d">>
Html5 == <<"h", "t", "m", "l">>

\* The elements rendered: a list, a block, a void tag, a tag that is not
\* indented and a name that needs escaping.
RenderTags == {Ul, Div, Img, Textarea, RAndD}

\* li("a") and li("b") of an XML factory.
LiA == XmlFunctor_call(Li, FALSE, <<StrArg(<<"a">>)>>, <<>>).el
LiB == XmlFunctor_call(Li, FALSE, <<StrArg(<<"b">>)>>, <<>>).el

\* A child with a doctype of its own: an HTML div holding a text.
DocChild == doctype(XmlFunctor_call(Div, TRUE, <<TextA>>, <<>>).el, Html5)

\* The positional argument lists the rendered elements are built with.
RenderArgLists ==
    {<<TextA>>,
     <<StrArg(<<"<">>)>>,
     <<NodeArg(LiA)>>,
     <<NodeArg(LiA), NodeArg(LiB)>>,
     <<NodeArg(DocChild)>>,
     <<ClassA>>}

\* Longest attribute value rendered.
MaxAttrLen == 2

\* The characters of the attribute values rendered: a plain one, the ones
\* escaping is about, both quotes and a line break.
AttrChars == {"a", "&", "<", "\"", "'", "\n"}
AttrValues == UNION {[1..n -> AttrChars] : n \in 0..MaxAttrLen}

\* -------------------------------------------- the StringBuilder's operations
\* Most fragments handed to a StringBuilder.
MaxFragments == 3

\* The fragments handed over: text, a line, a line break and nothing.
Fragments == {<<"a">>, <<"b", "\n">>, <<"\n">>, <<>>}
FragmentLists == {<<>>, <<<<"a">>>>, <<<<"a">>, <<"b", "\n">>>>}

\* The fragments StringBuilder(obj) is handed.
Handed(obj) ==
    CASE obj.kind = "str" -> <<obj.str>>
      [] obj.kind = "list" -> obj.strings
      [] OTHER -> <<>>

\* sb.append(string); cat lists the fragments sb has been handed, by append,
\* by extend and at construction, in that order.
SbAppend(string) ==
    /\ Len(cat) < MaxFragments
    /\ sb' = StringBuilder_append(sb, string)
    /\ cat' = Append(cat, string)
    /\ rendered' = None
    /\ UNCHANGED <<iw, sw, scopes, exc, net, low, tracing, hist, el, res, factory>>

\* sb.extend(strings)
SbExtend(strings) ==
    /\ Len(cat) + Len(strings) <= MaxFragments
    /\ sb' = StringBuilder_extend(sb, strings)
    /\ cat' = cat \o strings
    /\ rendered' = None
    /\ UNCHANGED <<iw, sw, scopes, exc, net, low, tracing, hist, el, res, factory>>

\* rendered = sb.get_string(), or str(sb), which returns the same
GetString ==
    /\ rendered' = get_string(sb)
    /\ UNCHANGED <<iw, sw, scopes, exc, net, low, tracing, hist, el, res,
                   sb, cat, factory>>

\* ------------------------------------------------------------ the factories
\* XmlFactory.__init__
XmlFactory(html) == [html |-> html]

\* HtmlFactory.__init__, by super().__init__(html = True)
HtmlFactory == XmlFactory(TRUE)

\* XmlFactory.__getattr__, with XmlFunctor.__init__
XmlFactory_getattr(f, element_name) ==
    [element_name |-> element_name, html |-> f.html]

\* The module's global  xml = HtmlFactory()
module_xml == HtmlFactory

\* The module's global  html = HtmlFactory()
module_html == HtmlFactory

\* The factories an element is made through, by the expression that names
\* them.
FactoryNames == {"XmlFactory()", "xml", "HtmlFactory()", "html"}
Factory(f) ==
    CASE f = "XmlFactory()" -> XmlFactory(FALSE)
      [] f = "xml" -> module_xml
      [] f = "HtmlFactory()" -> HtmlFactory
      [] f = "html" -> module_html

\* No factory made the element at hand.
NoFactory == "none"

FactoryTags == Tags \cup {Ul, Li}

\* el = f.name(*args, **kwargs): when the call raises, el and the factory it
\* came from stay as they are.
Make(f, name, args, kwargs) ==
    LET functor == XmlFactory_getattr(Factory(f), name)
        r == XmlFunctor_call(functor.element_name, functor.html, args, kwargs)
    IN  /\ Small(r.el)
        /\ el' = IF r.err = "" THEN r.el ELSE el
        /\ factory' = IF r.err = "" THEN f ELSE factory
        /\ res' = r.err
        /\ rendered' = None
        /\ UNCHANGED <<iw, sw, scopes, exc, net, low, tracing, hist, sb, cat>>

\* ------------------------------------------------------- specifications
InitWriterState ==
    /\ iw = NewWriter
    /\ factory = NoFactory
    /\ sw = NewStreamWriter
    /\ scopes = <<>>
    /\ exc = "none"
    /\ net = 0
    /\ low = 0
    /\ hist = <<>>

NoElement == XmlElement(<<>>, FALSE)

\* A StringBuilder() nothing is done with.
NoBuilder == sb = StringBuilder(NoObj) /\ cat = <<>>

\* A free run of a new writer.
InitWriter ==
    /\ InitWriterState
    /\ NoBuilder
    /\ rendered = None
    /\ tracing = FALSE
    /\ el = NoElement
    /\ res = ""

\* A new writer whose operations are recorded.
InitScenario ==
    /\ InitWriterState
    /\ NoBuilder
    /\ rendered = None
    /\ tracing = TRUE
    /\ el = NoElement
    /\ res = ""

NextWriter ==
    \/ \E t \in Texts : Write(t)
    \/ \E t \in Texts : Println(t)
    \/ Newline
    \/ \E n \in Levels : Indent(n)
    \/ \E n \in Levels : Unindent(n)
    \/ \E s \in IndentStrings : SetIndentString(s)
    \/ \E b \in BOOLEAN : SetEnabled(b)

NextScope ==
    \/ \E n \in Levels : Indent(n)
    \/ \E n \in Levels : Unindent(n)
    \/ \E t \in Texts : Println(t)
    \/ Enter
    \/ Exit
    \/ Raise
    \/ Catch

NextScenario ==
    \/ \E t \in Texts : Write(t)
    \/ \E t \in Texts : Println(t)
    \/ Enter
    \/ Exit

\* The text print_lines is handed: an ended line and a line.
TwoLines == <<"{", "\n", "}">>

\* A buffered writer and a stream writer driven by the same calls.
NextSink ==
    \/ Write(Stmt)
    \/ Println(Stmt)
    \/ PrintLines(TwoLines)
    \/ Newline
    \/ Indent(1)
    \/ Unindent(1)
    \/ SetIndentString(Tab)
    \/ Enter
    \/ Exit

\* An element made by XmlElement(name, html = html), and an idle writer.
InitXml ==
    /\ InitWriterState
    /\ NoBuilder
    /\ rendered = None
    /\ tracing = FALSE
    /\ \E name \in Tags, html \in BOOLEAN : el = XmlElement(name, html)
    /\ res = ""

NextXml ==
    \/ \E args \in ArgLists, kwargs \in KwArgs : Apply(args, kwargs)
    \/ \E child \in ChildNodes : AppendChild(child)
    \/ \E name \in Tags, html \in BOOLEAN,
          args \in ConstructArgLists, kwargs \in KwArgs :
          Construct(name, html, args, kwargs)

\* An element made by XmlElement(name, html = html), to be rendered.
InitRender ==
    /\ InitWriterState
    /\ NoBuilder
    /\ tracing = FALSE
    /\ \E name \in RenderTags, html \in BOOLEAN : el = XmlElement(name, html)
    /\ res = ""
    /\ rendered = None

NextRender ==
    \/ \E args \in RenderArgLists : Apply(args, <<>>)
    \/ Doctype(Html5)
    \/ Render

\* An XML element whose attributes are set and rendered.
InitAttr ==
    /\ InitWriterState
    /\ NoBuilder
    /\ tracing = FALSE
    /\ el = XmlElement(Div, FALSE)
    /\ res = ""
    /\ rendered = None

NextAttr ==
    \/ \E value \in AttrValues \cup {None} : Apply(<<>>, <<Item(Id, value)>>)
    \/ \E value \in {None, <<"a">>} :
          Apply(<<DictArg(<<Item(Class, value)>>)>>, <<>>)
    \/ Render

\* sb = StringBuilder(obj), the writer and the element idle.
InitStringBuilder(objs) ==
    /\ InitWriterState
    /\ tracing = FALSE
    /\ el = NoElement
    /\ res = ""
    /\ rendered = None
    /\ \E obj \in objs : sb = StringBuilder(obj) /\ cat = Handed(obj)

\* A StringBuilder made of nothing or of a string.
InitAppend == InitStringBuilder({NoObj} \cup {StrObj(f) : f \in Fragments})

\* A StringBuilder made of nothing, of a string or of a list.
InitBuilder ==
    InitStringBuilder({NoObj} \cup {StrObj(f) : f \in Fragments}
                        \cup {ListObj(fs) : fs \in FragmentLists})

NextAppend ==
    \/ \E f \in Fragments : SbAppend(f)
    \/ GetString

NextBuilder ==
    \/ \E f \in Fragments : SbAppend(f)
    \/ \E fs \in FragmentLists : SbExtend(fs)
    \/ GetString

NextFactory ==
    \E f \in FactoryNames, name \in FactoryTags,
       args \in ConstructArgLists, kwargs \in KwArgs :
       Make(f, name, args, kwargs)

Init ==
    InitWriter \/ InitScenario \/ InitXml \/ InitRender \/ InitAttr
      \/ InitBuilder
Next ==
    NextWriter \/ NextScope \/ NextScenario \/ NextXml \/ NextRender
      \/ NextAttr \/ NextBuilder \/ NextSink \/ NextFactory
Spec == Init /\ [][Next]_vars

SpecXml == InitXml /\ [][NextXml]_vars
SpecRender == InitRender /\ [][NextRender]_vars
SpecAttr == InitAttr /\ [][NextAttr]_vars
SpecAppend == InitAppend /\ [][NextAppend]_vars
SpecBuilder == InitBuilder /\ [][NextBuilder]_vars
SpecWriter == InitWriter /\ [][NextWriter]_vars
SpecScope == InitWriter /\ [][NextScope]_vars
SpecScenario == InitScenario /\ [][NextScenario]_vars
SpecSink == InitScenario /\ [][NextSink]_vars
SpecFactory == InitWriter /\ [][NextFactory]_vars

\* ------------------------------------------------------------------ claims
Last(q) == q[Len(q)]

\* C1: a write issued at line start emits the indent string repeated il
\* times, as both are at that moment, followed by the text, and clears the
\* line-start flag; a write issued elsewhere emits the text alone. Nothing
\* else of the writer changes.
C1_WriteEmitsPrefixThenText ==
    [][\A t \in Texts :
         Write(t) =>
           /\ get_string(iw') =
                get_string(iw)
                  \o (IF iw.isnewline THEN Rep(iw.indent_str, iw.il) ELSE <<>>)
                  \o t
           /\ iw'.isnewline = FALSE
           /\ iw'.il = iw.il
           /\ iw'.indent_str = iw.indent_str]_vars

\* A write at line start at depth 2 with the indent string changed to a tab
\* after construction: newline, prefix, text.
C1_Witness ==
    /\ iw.out = <<NL, Rep(Tab, 2), Stmt>>
    /\ iw.il = 2
    /\ iw.indent_str = Tab
    /\ ~iw.isnewline

\* C2: entering a with-block raises the depth by one; leaving it, normally
\* or while an error unwinds, unindents by one and does not suppress the
\* error, so that a body which left the depth where the entry put it sees the
\* depth of before the block restored.
C2_ScopeRestoresDepth ==
    [][/\ Enter => iw'.il = iw.il + 1
       /\ Exit => /\ exc' = exc
                  /\ iw.il = Last(scopes) + 1 => iw'.il = Last(scopes)]_vars

\* An error raised inside with-blocks, after a line was printed, has left
\* them all, is still in flight, and the depth is the one of before the
\* outermost block.
C2_Witness ==
    /\ exc = "raised"
    /\ scopes = <<>>
    /\ iw.il = 0
    /\ net = 0
    /\ low = 0
    /\ iw.out # <<>>

\* C3 (as claimed): on a fresh writer, a line printed inside a with-block
\* before anything else is prefixed by one indent string, and the line
\* printed after the block by none.
C3_FirstLineIndented ==
    \A t1, t2 \in Texts :
      hist = <<Op("enter", <<>>, 0), Op("println", t1, 0),
               Op("exit", <<>>, 0), Op("println", t2, 0)>>
        => get_string(iw) = FourSpaces \o t1 \o NL \o t2 \o NL

\* C4: the depth is never negative, and an unindent by more than the depth
\* sets it to exactly 0 without failing.
C4_DepthNeverNegative ==
    /\ [](iw.il >= 0)
    /\ [][\A n \in Levels :
            (Unindent(n) /\ iw.il - n < 0) => (iw'.il = 0 /\ exc' = "none")]_vars

\* An unindent was clamped: the running total is below zero, the depth is 0.
C4_Witness == net < 0 /\ iw.il = 0

\* C5 (as claimed): the depth is max(0, initial + indents - unindents); the
\* initial depth is 0.
C5_ClosedForm == iw.il = Max(0, net)

\* C5 (amended): the depth is the running total of indents minus unindents,
\* less the lowest value below zero that total has reached.
C5_DepthIsTotalLessLowest == iw.il = net - low /\ low <= 0 /\ low <= net

\* Indenting again after a clamped unindent.
C5_Witness == low < 0 /\ net > low /\ iw.il >= 1

\* C6 (as claimed): write("{"), with-block around write("x;"), write("}")
\* gives the three lines "{", "    x;", "}".
C6_WriteScenario ==
    hist = <<Op("write", OpenBrace, 0), Op("enter", <<>>, 0),
             Op("write", Stmt, 0), Op("exit", <<>>, 0),
             Op("write", CloseBrace, 0)>>
      => splitlines(get_string(iw)) =
           <<OpenBrace, FourSpaces \o Stmt, CloseBrace>>

PrintlnScenario ==
    <<Op("println", OpenBrace, 0), Op("enter", <<>>, 0),
      Op("println", Stmt, 0), Op("exit", <<>>, 0),
      Op("println", CloseBrace, 0)>>

\* C6 (amended): the same scenario with println gives the three lines, each
\* ended by a newline.
C6_PrintlnScenario ==
    hist = PrintlnScenario
      => /\ get_string(iw) =
              OpenBrace \o NL \o FourSpaces \o Stmt \o NL \o CloseBrace \o NL
         /\ splitlines(get_string(iw)) =
              <<OpenBrace, FourSpaces \o Stmt, CloseBrace>>

C6_Witness == hist = PrintlnScenario

\* C7 (as claimed): with enabled set to false, a write at line start emits
\* the text alone and clears the line-start flag.
C7_DisabledSkipsPrefix ==
    [][\A t \in Texts :
         (Write(t) /\ iw.isnewline /\ ~iw.enabled) =>
           /\ get_string(iw') = get_string(iw) \o t
           /\ iw'.isnewline = FALSE]_vars

NoNone(pairs) == \A i \in 1..Len(pairs) : pairs[i].value # None

\* No mapping among the arguments, at any nesting, holds a None.
RECURSIVE NoNoneArgs(_)
NoNoneArgs(args) ==
    \A i \in 1..Len(args) :
       /\ args[i].kind = "dict" => NoNone(args[i].pairs)
       /\ args[i].kind = "list" => NoNoneArgs(args[i].items)

\* The outcome of handing a child to a void HTML element: the structural
\* error, unless a mapping met a None class first.
ChildRefused(e, args, err) ==
    \/ err = "ValueError"
    \/ err = "TypeError" /\ ~(NoNone(e.attrs) /\ NoNoneArgs(args))

\* C8: a void HTML element has no children in any reachable state, and every
\* append of a child to one fails with the structural error and adds
\* nothing: directly, through apply (at any nesting of the arguments) and
\* through the factory's constructor.
C8_VoidHasNoChildren ==
    /\ IsVoid(el) =>
         /\ el.children = <<>>
         /\ \A c \in ChildNodes : append(el, c) = Result(el, "ValueError")
         /\ \A args \in ArgLists, kwargs \in KwArgs :
              HasChild(args) =>
                 LET r == apply(el, args, kwargs)
                 IN  ChildRefused(el, args, r.err) /\ r.el.children = <<>>
    /\ \A name \in Tags \cap HTML_VOID_TAGS, args \in ArgLists, kwargs \in KwArgs :
         HasChild(args) =>
            ChildRefused(XmlElement(name, TRUE), args,
                         XmlFunctor_call(name, TRUE, args, kwargs).err)

\* A void HTML element that has attributes and has just refused a child.
C8_Witness ==
    /\ IsVoid(el)
    /\ res = "ValueError"
    /\ el.attrs # <<>>
    /\ el.children = <<>>

\* C9 (as claimed): an apply on a void HTML element that raises the
\* structural error leaves children and attributes as they were.
C9_FailedApplyChangesNothing ==
    [][\A args \in ArgLists, kwargs \in KwArgs :
         (Apply(args, kwargs) /\ IsVoid(el) /\ res' = "ValueError") =>
            (el'.children = el.children /\ el'.attrs = el.attrs)]_vars

ClassCount(d) == Cardinality({i \in 1..Len(d) : d[i].key = Class})

\* C10: applying the mapping {class: v} sets class to v on an element without
\* a class; on an element whose class is a string it leaves one class
\* attribute, in HTML mode the old value, a space and v, otherwise v.
C10_ClassMerge ==
    [][\A v \in StrValues :
         Apply(<<DictArg(<<Item(Class, v)>>)>>, <<>>) =>
            /\ ClassCount(el'.attrs) = 1
            /\ ~has_key(el.attrs, Class) =>
                 (res' = "" /\ get_item(el'.attrs, Class) = v)
            /\ (has_key(el.attrs, Class) /\ get_item(el.attrs, Class) # None) =>
                 /\ res' = ""
                 /\ Len(el'.attrs) = Len(el.attrs)
                 /\ get_item(el'.attrs, Class) =
                      IF el.html
                      THEN get_item(el.attrs, Class) \o <<" ">> \o v
                      ELSE v]_vars

\* An HTML element after apply({class: "a"}) and apply({class: "b"}).
C10_Witness ==
    /\ el.html
    /\ res = ""
    /\ el.attrs = <<Item(Class, <<"a", " ", "b">>)>>

\* C11 (as claimed): named arguments and a positional mapping holding the same
\* pairs leave the same attribute map, on every element.
C11_NamedEqualsMapping ==
    \A pairs \in KwArgs :
       apply(el, <<>>, pairs).el.attrs
         = apply(el, <<DictArg(pairs)>>, <<>>).el.attrs

\* C13 (as claimed): an apply whose arguments are only named arguments and
\* mappings (at any nesting) with string or None values raises nothing.
C13_AttributeArgsNeverRaise ==
    \A args \in ArgLists, kwargs \in KwArgs :
       ~HasChild(args) => apply(el, args, kwargs).err = ""

Keys(d) == [i \in 1..Len(d) |-> d[i].key]

IsPrefix(a, b) == Len(a) <= Len(b) /\ SubSeq(b, 1, Len(a)) = a

Distinct(q) == \A i, j \in 1..Len(q) : q[i] = q[j] => i = j

\* q without the repetitions of an earlier element.
RECURSIVE Dedup(_)
Dedup(q) ==
    IF q = <<>> THEN <<>>
    ELSE LET front == Dedup(SubSeq(q, 1, Len(q) - 1))
         IN  IF \E i \in 1..Len(front) : front[i] = Last(q)
             THEN front ELSE Append(front, Last(q))

\* The keys a call presents, in the order apply meets them: the named
\* arguments, then the mappings among the positional ones, depth first.
RECURSIVE ArgKeys(_)
ArgKeys(args) ==
    IF args = <<>> THEN <<>>
    ELSE (CASE Head(args).kind = "dict" -> Keys(Head(args).pairs)
            [] Head(args).kind = "list" -> ArgKeys(Head(args).items)
            [] OTHER -> <<>>)
         \o ArgKeys(Tail(args))

\* The keys of a rendered attribute list, read back from the text: a key
\* runs up to "=" or a space; after "=" comes a quoted value, which ends at
\* the next occurrence of the quote that opened it.
RECURSIVE RenderedKeys(_, _, _)
RenderedKeys(s, i, key) ==
    IF i > Len(s) THEN (IF key = <<>> THEN <<>> ELSE <<key>>)
    ELSE IF s[i] = " " THEN <<key>> \o RenderedKeys(s, i + 1, <<>>)
    ELSE IF s[i] = "="
         THEN LET close == CHOOSE j \in (i + 2)..Len(s) :
                              /\ s[j] = s[i + 1]
                              /\ \A k \in (i + 2)..(j - 1) : s[k] # s[i + 1]
              IN  <<key>> \o RenderedKeys(s, close + 2, <<>>)
    ELSE RenderedKeys(s, i + 1, Append(key, s[i]))

\* C12: the attribute keys are distinct and render once each in the stored
\* order; every apply leaves the keys there were in their places and puts
\* the new ones after them, in the order the call presents them (all of
\* them when the call returns, the first of them when it raises).
C12_KeysInFirstInsertionOrder ==
    /\ Distinct(Keys(el.attrs))
    /\ RenderedKeys(get_attrs_str(el.attrs), 1, <<>>)
         = [i \in 1..Len(el.attrs) |-> xml_escape(el.attrs[i].key)]
    /\ \A args \in ArgLists, kwargs \in KwArgs :
         LET r == apply(el, args, kwargs)
             all == Dedup(Keys(el.attrs) \o Keys(kwargs) \o ArgKeys(args))
         IN  /\ IsPrefix(Keys(el.attrs), Keys(r.el.attrs))
             /\ IsPrefix(Keys(r.el.attrs), all)
             /\ r.err = "" => Keys(r.el.attrs) = all

\* An element whose id came first and was set by a named argument, and whose
\* class came second and was merged from two mappings.
C12_Witness ==
    /\ Keys(el.attrs) = <<Id, Class>>
    /\ el.attrs[1].value = <<"y">>
    /\ el.attrs[2].value = <<"a", " ", "b">>

\* C14 (as claimed): an element without children and attributes renders as
\* "<tag/>" in XML mode and as "<tag></tag>" in HTML mode when the tag is
\* not void, and as nothing more.
C14_ExactlyTheMarkup ==
    (rendered # None /\ el.children = <<>> /\ el.attrs = <<>>) =>
       /\ ~el.html => rendered = <<"<">> \o el.name \o <<"/", ">">>
       /\ (el.html /\ el.name \notin HTML_VOID_TAGS) =>
             rendered = <<"<">> \o el.name \o <<">", "<", "/">> \o el.name
                          \o <<">">>

\* C14 (amended): such an element renders as its markup with the name
\* escaped and a line break after it, after a doctype line when a doctype
\* is set; a void tag in HTML mode renders as in XML mode.
C14_MarkupLineAfterDoctype ==
    (rendered # None /\ el.children = <<>> /\ el.attrs = <<>>) =>
       LET name == xml_escape(el.name)
           markup == IF el.html /\ el.name \notin HTML_VOID_TAGS
                     THEN <<"<">> \o name \o <<">", "<", "/">> \o name
                            \o <<">">>
                     ELSE <<"<">> \o name \o <<"/", ">">>
           first == IF el.doctype = None THEN <<>>
                    ELSE DoctypeStart \o el.doctype \o <<">">> \o NL
       IN  rendered = first \o markup \o NL

C14_Witness ==
    /\ el.html /\ el.name = Div /\ el.doctype = None
    /\ rendered = <<"<", "d", "i", "v", ">", "<", "/", "d", "i", "v", ">", "\n">>

\* The element is ul(li("a"), li("b")) of an XML factory, just rendered.
UlRendered ==
    /\ rendered # None
    /\ el = apply(XmlElement(Ul, FALSE), <<NodeArg(LiA), NodeArg(LiB)>>, <<>>).el

\* The element holds one child, a text leaf, and was just rendered.
TextOnlyRendered ==
    /\ rendered # None
    /\ Len(el.children) = 1
    /\ el.children[1].nodetype = ELEMENT_TEXT

LiOpen == <<"<", "l", "i", ">">>
LiClose == <<"<", "/", "l", "i", ">">>
UlOpen == <<"<", "u", "l", ">">>
UlClose == <<"<", "/", "u", "l", ">">>

\* C15 (as claimed): ul(li("a"), li("b")) renders in XML mode as four lines,
\* each li on one line, and an element holding only a text leaf renders on
\* one line.
C15_TextOnTheLineOfItsTags ==
    /\ UlRendered =>
          splitlines(rendered)
            = <<UlOpen,
                FourSpaces \o LiOpen \o <<"a">> \o LiClose,
                FourSpaces \o LiOpen \o <<"b">> \o LiClose,
                UlClose>>
    /\ TextOnlyRendered => Len(splitlines(rendered)) = 1

\* C15 (amended): ul(li("a"), li("b")) renders in XML mode as eight lines,
\* the text of each li on a line of its own one unit deeper than its tags;
\* an element holding only a one-line text leaf renders as three lines
\* (after the doctype line, if any): the open tag, the escaped text one unit
\* in, the close tag; only a tag that is not indented, in HTML mode, keeps
\* the text on the line of its tags.
C15_TextOnALineOfItsOwn ==
    /\ UlRendered =>
          rendered
            = Join([i \in 1..8 |->
                     <<UlOpen,
                       FourSpaces \o LiOpen,
                       FourSpaces \o FourSpaces \o <<"a">>,
                       FourSpaces \o LiClose,
                       FourSpaces \o LiOpen,
                       FourSpaces \o FourSpaces \o <<"b">>,
                       FourSpaces \o LiClose,
                       UlClose>>[i] \o NL])
    /\ TextOnlyRendered =>
          LET lines == splitlines(rendered)
              body == IF el.doctype = None THEN lines ELSE Tail(lines)
              txt == xml_escape(el.children[1].text)
              open == tag_start(el) \o <<">">>
          IN  IF el.html /\ el.name \in HTML_NOINDENT_TAGS
              THEN body = <<open \o txt \o tag_end(el)>>
              ELSE body = <<open, FourSpaces \o txt, tag_end(el)>>

C15_Witness == UlRendered /\ Len(splitlines(rendered)) = 8

\* C17: a call of str(el) leaves every field of el as it was (name,
\* attributes, children with their own fields, doctype and mode), and a
\* second call right after it returns the same string.
C17_RenderIsAPureRead ==
    [][rendered' # None =>
         /\ el' = el
         /\ rendered # None => rendered' = rendered]_vars

\* An element with a doctype, an attribute and a child was rendered.
C17_Witness ==
    /\ rendered # None
    /\ el.doctype # None
    /\ el.attrs # <<>>
    /\ el.children # <<>>

\* The attribute declarations of a rendered tag, as a reader of the markup
\* splits them: at the spaces outside quoted values, a quoted value running
\* from the quote after "=" to the next occurrence of the same quote.
RECURSIVE SplitDecls(_, _, _, _)
SplitDecls(s, i, cur, quote) ==
    IF i > Len(s) THEN (IF cur = <<>> THEN <<>> ELSE <<cur>>)
    ELSE IF quote # ""
         THEN SplitDecls(s, i + 1, Append(cur, s[i]),
                         IF s[i] = quote THEN "" ELSE quote)
    ELSE IF s[i] = " " THEN <<cur>> \o SplitDecls(s, i + 1, <<>>, "")
    ELSE IF s[i] \in {"\"", "'"} /\ cur # <<>> /\ Last(cur) = "="
         THEN SplitDecls(s, i + 1, Append(cur, s[i]), s[i])
    ELSE SplitDecls(s, i + 1, Append(cur, s[i]), "")

\* The declarations in the rendering of a div without children that has
\* attributes: the text between "<div " and "/>\n".
RenderedDecls ==
    SplitDecls(SubSeq(rendered, Len(Div) + 3, Len(rendered) - 3), 1, <<>>, "")

\* The text an escaped value stands for.
RECURSIVE Unescape(_)
Unescape(s) ==
    IF s = <<>> THEN <<>>
    ELSE LET refs == {<<Amp, "&">>, <<Lt, "<">>, <<Gt, ">">>, <<Quot, "\"">>,
                      <<Ref10, "\n">>, <<Ref13, "\r">>, <<Ref9, "\t">>}
             found == {r \in refs : IsPrefix(r[1], s)}
         IN  IF found # {}
             THEN LET r == CHOOSE r \in found : TRUE
                  IN  <<r[2]>> \o Unescape(SubSeq(s, Len(r[1]) + 1, Len(s)))
             ELSE <<Head(s)>> \o Unescape(Tail(s))

AttrsRendered == rendered # None /\ el.attrs # <<>>

\* C16 (as claimed): every attribute with a value is rendered as the key,
\* "=" and the value between double quotes with no double quote left in it;
\* an attribute with None as the bare key.
C16_AlwaysDoubleQuoted ==
    AttrsRendered =>
       /\ Len(RenderedDecls) = Len(el.attrs)
       /\ \A i \in 1..Len(el.attrs) :
            LET key == el.attrs[i].key
                decl == RenderedDecls[i]
                inner == SubSeq(decl, Len(key) + 3, Len(decl) - 1)
            IN  IF el.attrs[i].value = None THEN decl = key
                ELSE /\ Len(decl) >= Len(key) + 3
                     /\ SubSeq(decl, 1, Len(key) + 2) = key \o <<"=", "\"">>
                     /\ Last(decl) = "\""
                     /\ ~Contains(inner, "\"")

\* C16 (amended): every attribute with a value is rendered as the key, "="
\* and the value between quotes, with "&", "<", ">" and line breaks escaped
\* so that the text between the quotes stands for the value and holds no
\* "<" and not the quote around it. The quotes are double quotes, but single
\* quotes when the value holds a double quote and no single quote; only a
\* value holding both has its double quotes escaped. An attribute with None
\* is rendered as the bare key.
C16_QuotedByWhatTheValueHolds ==
    AttrsRendered =>
       /\ Len(RenderedDecls) = Len(el.attrs)
       /\ \A i \in 1..Len(el.attrs) :
            LET key == el.attrs[i].key
                value == el.attrs[i].value
                decl == RenderedDecls[i]
                quote == decl[Len(key) + 2]
                inner == SubSeq(decl, Len(key) + 3, Len(decl) - 1)
            IN  IF value = None THEN decl = key
                ELSE /\ Len(decl) >= Len(key) + 3
                     /\ SubSeq(decl, 1, Len(key) + 1) = key \o <<"=">>
                     /\ quote = IF Contains(value, "\"") /\ ~Contains(value, "'")
                                THEN "'" ELSE "\""
                     /\ Last(decl) = quote
                     /\ ~Contains(inner, quote)
                     /\ ~Contains(inner, "<")
                     /\ ~Contains(inner, "\n")
                     /\ Contains(inner, "\"") =>
                          (quote = "'" /\ ~Contains(value, "'"))
                     /\ Unescape(inner) = value

\* A value holding a double quote and no single quote was rendered between
\* single quotes.
C16_Witness ==
    /\ el.attrs = <<Item(Id, <<"\"">>)>>
    /\ rendered = <<"<", "d", "i", "v", " ", "i", "d", "=", "'", "\"", "'",
                    "/", ">", "\n">>

\* C18: whatever fragments were appended, get_string() returns them joined
\* in the order of the appends with nothing between them, and the call
\* leaves the fragments as they were.
C18_GetStringIsConcatenation ==
    /\ [](get_string(sb) = Join(cat))
    /\ [][rendered' # None => (rendered' = Join(cat) /\ sb' = sb)]_vars

\* Three fragments, a line break among them, were appended and the string
\* was fetched.
C18_Witness ==
    /\ cat = <<<<"a">>, <<"\n">>, <<"b", "\n">>>>
    /\ rendered = <<"a", "\n", "b", "\n">>

\* C19 (as claimed): the string of the builder is the concatenation of all
\* fragments handed to it, those handed by extend and as a list to the
\* constructor included.
C19_ExtendAppendsEach == get_string(sb) = Join(cat)

\* C20: after the same calls, the text the stream of the IndentWriter has
\* been written is the string of the IndentStringBuilder, and the two
\* writers agree on depth, line-start flag, indent string and enabling.
C20_SameButForTheSink ==
    /\ sw.out = get_string(iw)
    /\ sw.il = iw.il
    /\ sw.isnewline = iw.isnewline
    /\ sw.indent_str = iw.indent_str
    /\ sw.enabled = iw.enabled

\* Inside a with-block, after the indent string was changed, a prefix and a
\* text were written on a fresh line.
C20_Witness ==
    /\ scopes # <<>>
    /\ iw.indent_str = Tab
    /\ Len(iw.out) >= 3
    /\ Last(iw.out) = Stmt
    /\ iw.out[Len(iw.out) - 1] = Rep(Tab, iw.il)
    /\ iw.il >= 1
    /\ sw.out # <<>>

\* C21 (as claimed): an element made through XmlFactory() or the module's
\* xml is in XML mode, one made through HtmlFactory() or the module's html
\* is in HTML mode, whatever its tag.
C21_FactoryMode ==
    /\ factory \in {"XmlFactory()", "xml"} => ~el.html
    /\ factory \in {"HtmlFactory()", "html"} => el.html

\* C22 (as claimed): the lines get_lines() returns are the non-empty pieces
\* of get_string() split at the line breaks, for a StringBuilder fed by
\* append and for the fragments of an IndentStringBuilder.
C22_LinesOfTheString ==
    /\ get_lines(sb) = filter_none(split(get_string(sb)))
    /\ get_lines(iw) = filter_none(split(get_string(iw)))

\* The lines of a text: the pieces between its line breaks, without the
\* empty piece after a last line break.
Lines(s) ==
    LET pieces == split(s)
    IN  IF Last(pieces) = <<>> THEN SubSeq(pieces, 1, Len(pieces) - 1)
        ELSE pieces

\* Every line of lines after the prefix, ended by a line break, joined.
Indented(prefix, lines) ==
    Join([i \in 1..Len(lines) |-> prefix \o lines[i] \o NL])

\* The element has children, is not an HTML tag that is not indented, and
\* was just rendered.
BlockRendered ==
    /\ rendered # None
    /\ el.children # <<>>
    /\ ~(el.html /\ el.name \in HTML_NOINDENT_TAGS)

\* The open tag line, the lines of every child one unit in, the close tag
\* line.
BlockText(e) ==
    Indented(<<>>, <<tag_start(e) \o <<">">>>>)
      \o Join([i \in 1..Len(e.children) |->
                 Indented(FourSpaces, Lines(node_str(e.children[i])))])
      \o Indented(<<>>, <<tag_end(e)>>)

\* The lines of a tree whose root is at depth d, every line after d units:
\* the doctype line of a node that has one, then its tag alone, or its open
\* tag, the lines of its children at depth d + 1 and its close tag; a text
\* leaf and an HTML tag that is not indented give the lines of their own
\* render.
RECURSIVE TreeLines(_, _)
RECURSIVE ForestLines(_, _)
TreeLines(node, d) ==
    LET pre == Rep(FourSpaces, d)
        own == Lines(node_str(node))
        asis == [i \in 1..Len(own) |-> pre \o own[i]]
    IN  IF node.nodetype = ELEMENT_TEXT THEN asis
        ELSE IF node.children = <<>> THEN asis
        ELSE IF node.html /\ node.name \in HTML_NOINDENT_TAGS THEN asis
        ELSE (IF node.doctype = None THEN <<>>
              ELSE <<pre \o DoctypeStart \o node.doctype \o <<">">>>>)
             \o <<pre \o tag_start(node) \o <<">">>>>
             \o ForestLines(node.children, d + 1)
             \o <<pre \o tag_end(node)>>

ForestLines(nodes, d) ==
    IF nodes = <<>> THEN <<>>
    ELSE TreeLines(Head(nodes), d) \o ForestLines(Tail(nodes), d)

\* C23 (as claimed): the render of such an element is its open tag line,
\* the lines of its children one unit in, and its close tag line.
C23_OpenChildrenClose == BlockRendered => rendered = BlockText(el)

\* C23 (amended): the render of such an element is that, after the doctype
\* line when the element has a doctype; and it is the lines of the tree,
\* every node's lines after as many units as the node is deep.
C23_BlockAfterDoctypeLine ==
    BlockRendered =>
       /\ rendered
            = (IF el.doctype = None THEN <<>>
               ELSE Indented(<<>>, <<DoctypeStart \o el.doctype \o <<">">>>>))
              \o BlockText(el)
       /\ rendered = Indented(<<>>, TreeLines(el, 0))

\* A tree two levels deep below its root, root and child with a doctype of
\* their own, was rendered: the doctype line of the child is one unit in and
\* its text two.
C23_Witness ==
    /\ BlockRendered
    /\ el.doctype # None
    /\ el.children = <<LiA, DocChild>>
    /\ \E i \in 1..Len(TreeLines(el, 0)) :
          TreeLines(el, 0)[i] = FourSpaces \o DoctypeStart \o Html5 \o <<">">>
    /\ Last(split(SubSeq(rendered, 1, Len(rendered) - Len(tag_end(el)) - 2)))
         = FourSpaces \o tag_end(DocChild)

\* The children a list of positional arguments stands for: depth first and
\* left to right, a string as a text leaf, a list as what its items stand
\* for, a mapping as nothing, anything else as itself.
RECURSIVE Flatten(_)
Flatten(args) ==
    IF args = <<>> THEN <<>>
    ELSE (CASE Head(args).kind = "str" -> <<XmlText(Head(args).str)>>
            [] Head(args).kind = "list" -> Flatten(Head(args).items)
            [] Head(args).kind = "dict" -> <<>>
            [] OTHER -> <<Head(args).node>>)
         \o Flatten(Tail(args))

\* C24: an apply that returns leaves the children there were followed by
\* the flattening of its positional arguments, and returns the element; an
\* apply that raises leaves the children there were followed by the first
\* of that flattening.
C24_ApplyFlattens ==
    \A args \in ArgLists, kwargs \in KwArgs :
       LET r == apply_call(el, args, kwargs)
           all == el.children \o Flatten(args)
       IN  /\ IsPrefix(el.children, r.el.children)
           /\ IsPrefix(r.el.children, all)
           /\ r.err = "" => (r.el.children = all /\ r.ret = r.el)

\* An element that had a text child from a list nested twice was given a
\* ready-made child after it.
C24_Witness ==
    /\ res = ""
    /\ el.children = <<XmlText(<<"a">>), XmlElement(Li, FALSE)>>
    /\ el.attrs = <<Item(Id, <<"x">>)>>

====
